---- MODULE Spec2Model ----
(***************************************************************************)
(* Grid compliance pipeline (lambda_function.py).                          *)
(*                                                                         *)
(* Each invocation of lambda_handler is one run: parse the event, download *)
(* the artifact to /tmp, load it, run the Newton-Raphson power flow,       *)
(* evaluate the bus voltages against the VDE-AR-N 4110 band, persist the   *)
(* verdict with _log_result and return.                                    *)
(*                                                                         *)
(* Voltages are fixed-point numbers in units of 0.00001 pu (five           *)
(* fractional digits): 0.90 pu is 90000, 1.10 pu is 110000.                *)
(***************************************************************************)
EXTENDS Integers, Sequences, FiniteSets

\* ------------------------------------------------------------------ bounds

\* Invocations of lambda_handler the platform makes at most; they may overlap.
MaxInvocations == 2
\* Entries of event['Records'] at most.
MaxRecords == 2
\* Rows of net.res_bus at most (evaluation specification).
MaxBuses == 2

\* --------------------------------------------------------------- constants

VOLTAGE_MIN_PU == 90000
VOLTAGE_MAX_PU == 110000
DYNAMODB_TABLE == "GridComplianceResults"

\* ------------------------------------------------------------------ inputs

Slots == 1..MaxInvocations

\* An object key is its sequence of '/'-separated segments.
Keys == { <<"a", "grid.json">>, <<"b", "grid.json">>, <<"c.json">> }
NoKey == << >>

\* event['Records']: the keys of its entries, in order; a batch names an
\* object once.
Events ==
  { ev \in UNION { [1..n -> Keys] : n \in 0..MaxRecords } :
      \A p, q \in DOMAIN ev : p # q => ev[p] # ev[q] }

BusIds == 0..MaxBuses
Voltages == { 85000, 89996, 90000, 100000, 110000, 110004, 112000 }
\* Values datetime.now().isoformat() may take.
Timestamps == { "T1", "T2" }

\* A row of net.res_bus: the bus index and its vm_pu.
Rows == [bus_idx : BusIds, vm_pu : Voltages]

\* net.res_bus: rows with pairwise distinct bus indices, in table order.
Tables ==
  { t \in UNION { [1..n -> Rows] : n \in 0..MaxBuses } :
      \A p, q \in DOMAIN t : p # q => t[p].bus_idx # t[q].bus_idx }

\* What a grid model file does to the pipeline: it does not parse, or it
\* parses and the solver diverges, faults, or converges to res_bus.
Artifact(kind, res_bus) == [kind |-> kind, res_bus |-> res_bus]
NoFile == Artifact("nofile", << >>)
Malformed == Artifact("malformed", << >>)
Diverges == Artifact("diverges", << >>)
Faults == Artifact("faults", << >>)
Converges(t) == Artifact("converges", t)

\* Scenario B and scenario A of the end-to-end tests.
TablePass == << [bus_idx |-> 0, vm_pu |-> 100000], [bus_idx |-> 1, vm_pu |-> 90000] >>
TableFail == << [bus_idx |-> 1, vm_pu |-> 85000], [bus_idx |-> 2, vm_pu |-> 112000] >>

\* The objects the bucket may hand out in the pipeline specification.
Artifacts == { Malformed, Diverges, Faults, Converges(TablePass), Converges(TableFail) }

\* --------------------------------------------------------------- variables

VARIABLES
  run,      \* run[i]: the locals of invocation i
  scratch,  \* scratch[name]: the content of /tmp/<name>, one /tmp for all runs
  store     \* the items of the GridComplianceResults table

vars == << run, scratch, store >>

\* ----------------------------------------------------------------- helpers

\* os.path.basename: what follows the last '/'.
basename(key) == IF Len(key) = 0 THEN "" ELSE key[Len(key)]

Basenames == { basename(k) : k \in Keys }

\* Line 36: f"/tmp/{os.path.basename(file_key)}", as its path segments.
download_path(file_key) == << "tmp", basename(file_key) >>

\* round(vm_pu, 4): to the nearest multiple of 0.0001, a tie to the even one
\* (no value of Voltages lies on a tie, where the float's binary expansion
\* would decide).
round4(v) ==
  LET r == v % 10
      lo == v - r
  IN  IF r < 5 THEN lo
      ELSE IF r > 5 THEN lo + 10
      ELSE IF (lo \div 10) % 2 = 0 THEN lo ELSE lo + 10

\* Mutant of OutOfLimits: the limits themselves count as violations.
OutOfLimitsInclusive(vm_pu) == vm_pu <= VOLTAGE_MIN_PU \/ vm_pu >= VOLTAGE_MAX_PU

\* The limit check of line 60.
OutOfLimits(vm_pu) == vm_pu < VOLTAGE_MIN_PU \/ vm_pu > VOLTAGE_MAX_PU

\* Mutant of Violation: the type is read off the rounded voltage.
ViolationTaggedByRounded(row) ==
  [ bus_id |-> row.bus_idx,
    voltage_pu |-> round4(row.vm_pu),
    type |-> IF round4(row.vm_pu) < VOLTAGE_MIN_PU THEN "Undervoltage" ELSE "Overvoltage" ]

\* The dict appended at lines 61-65.
Violation(row) ==
  [ bus_id |-> row.bus_idx,
    voltage_pu |-> round4(row.vm_pu),
    type |-> IF row.vm_pu < VOLTAGE_MIN_PU THEN "Undervoltage" ELSE "Overvoltage" ]

\* Mutant of StatusOf: the two branches swapped.
StatusOfSwapped(violations) == IF violations # << >> THEN "PASS" ELSE "FAIL"

\* Line 67.
StatusOf(violations) == IF violations # << >> THEN "FAIL" ELSE "PASS"

\* The Item of _log_result.
Item(file_key, ts, status, standard, violations) ==
  [ grid_id |-> file_key,
    timestamp |-> ts,
    status |-> status,
    compliance_standard |-> standard,
    violations |-> violations,
    processed_by |-> "AWS_Lambda" ]

\* Mutant of put_item: the item is added and the old one stays.
put_item_append(table, item) == table \cup { item }

\* table.put_item: the item replaces the one with its key, whole.
put_item(table, item) ==
  { r \in table : r.grid_id # item.grid_id } \cup { item }

\* What a run hands back: a value, or an exception.
NoResult == [kind |-> "none", statusCode |-> 0, status |-> "", file |-> NoKey, exc |-> ""]
Response(status, file_key) ==
  [kind |-> "return", statusCode |-> 200, status |-> status, file |-> file_key, exc |-> ""]
ReturnNone == [kind |-> "return_none", statusCode |-> 0, status |-> "", file |-> NoKey, exc |-> ""]
Raised(exc) == [kind |-> "raise", statusCode |-> 0, status |-> "", file |-> NoKey, exc |-> exc]

IdleRun ==
  [ pc |-> "idle",
    event |-> << >>,         \* event['Records'], until the object is fetched
    file_key |-> NoKey,
    fetched |-> NoFile,      \* history: the object this run downloaded, until it is parsed
    net |-> NoFile,
    solved |-> "none",       \* history: how pp.runpp ended
    visited |-> 0,           \* rows of res_bus the loop has consumed
    violations |-> << >>,
    status |-> "",
    writes |-> 0,            \* history: put_item calls of this run that succeeded
    result |-> NoResult ]

\* Lines 73-76 and 49: the run has returned and its locals are gone; what
\* stays is what it handed back, and the key and status it persisted.
Return(r, result) ==
  [IdleRun EXCEPT !.pc = "returned", !.result = result, !.file_key = r.file_key,
                  !.solved = r.solved, !.status = r.status, !.writes = r.writes]

\* The except clauses of lines 50-52 and 78-81: log and raise the same
\* exception; the run is over and its locals are gone.
Fail(r, exc) ==
  [IdleRun EXCEPT !.pc = "raised", !.result = Raised(exc),
                  !.solved = r.solved, !.writes = r.writes]

\* ----------------------------------------------------------------- actions

Init ==
  /\ run = [i \in Slots |-> IdleRun]
  /\ scratch = [n \in Basenames |-> NoFile]
  /\ store = {}

\* The platform invokes lambda_handler(event, context): invocation i starts.
Invoke(i) ==
  /\ run[i].pc = "idle"
  /\ \E ev \in Events :
       run' = [run EXCEPT ![i] = [IdleRun EXCEPT !.pc = "start", !.event = ev]]
  /\ UNCHANGED << scratch, store >>

\* Mutant of ParseEvent: the last entry of Records names the object.
ParseEventLast(i) ==
  /\ run[i].pc = "start"
  /\ LET r == run[i]
     IN  run' = [run EXCEPT ![i] =
           IF Len(r.event) = 0
           THEN Fail(r, "IndexError")
           ELSE [r EXCEPT !.pc = "download", !.file_key = r.event[Len(r.event)]]]
  /\ UNCHANGED << scratch, store >>

\* Lines 28-36: the first entry of Records names the object.
ParseEvent(i) ==
  /\ run[i].pc = "start"
  /\ LET r == run[i]
     IN  run' = [run EXCEPT ![i] =
           IF Len(r.event) = 0
           THEN Fail(r, "IndexError")
           ELSE [r EXCEPT !.pc = "download", !.file_key = r.event[1]]]
  /\ UNCHANGED << scratch, store >>

\* Line 38: s3.download_file writes the object to /tmp/<basename>, or fails.
Download(i) ==
  /\ run[i].pc = "download"
  /\ \/ /\ run' = [run EXCEPT ![i] = Fail(@, "TransferError")]
        /\ UNCHANGED scratch
     \/ \E a \in Artifacts :
          /\ scratch' = [scratch EXCEPT ![basename(run[i].file_key)] = a]
          /\ run' = [run EXCEPT ![i] =
               [@ EXCEPT !.pc = "load", !.fetched = a, !.event = << >>]]
  /\ UNCHANGED store

\* Mutant of Load: a file that does not parse is taken for a divergence.
LoadAbsorbsParseError(i) ==
  /\ run[i].pc = "load"
  /\ LET file == scratch[basename(run[i].file_key)]
     IN  run' = [run EXCEPT ![i] =
           IF file.kind = "malformed"
           THEN [@ EXCEPT !.pc = "diverged"]
           ELSE [@ EXCEPT !.pc = "solve", !.net = file, !.fetched = NoFile]]
  /\ UNCHANGED << scratch, store >>

\* Line 42: pp.from_json reads the file at download_path.
Load(i) ==
  /\ run[i].pc = "load"
  /\ LET file == scratch[basename(run[i].file_key)]
     IN  run' = [run EXCEPT ![i] =
           IF file.kind = "malformed"
           THEN Fail(@, "ParseError")
           ELSE [@ EXCEPT !.pc = "solve", !.net = file, !.fetched = NoFile]]
  /\ UNCHANGED << scratch, store >>

\* Mutant of RunPP: every exception of the solver is taken for a divergence.
RunPPAbsorbsFaults(i) ==
  /\ run[i].pc = "solve"
  /\ LET r == run[i]
     IN  run' = [run EXCEPT ![i] =
           CASE r.net.kind = "diverges" -> [r EXCEPT !.pc = "diverged", !.solved = "diverged"]
             [] r.net.kind = "faults" -> [r EXCEPT !.pc = "diverged", !.solved = "fault"]
             [] OTHER -> [r EXCEPT !.pc = "evaluate", !.solved = "converged"]]
  /\ UNCHANGED << scratch, store >>

\* Mutant of RunPP: a divergence is passed over and the loop is entered.
RunPPEvaluatesDiverged(i) ==
  /\ run[i].pc = "solve"
  /\ LET r == run[i]
     IN  run' = [run EXCEPT ![i] =
           CASE r.net.kind = "diverges" -> [r EXCEPT !.pc = "evaluate", !.solved = "diverged"]
             [] r.net.kind = "faults" -> Fail([r EXCEPT !.solved = "fault"], "SolverError")
             [] OTHER -> [r EXCEPT !.pc = "evaluate", !.solved = "converged"]]
  /\ UNCHANGED << scratch, store >>

\* Lines 46-52: pp.runpp, and the two except clauses around it.
RunPP(i) ==
  /\ run[i].pc = "solve"
  /\ LET r == run[i]
     IN  run' = [run EXCEPT ![i] =
           CASE r.net.kind = "diverges" -> [r EXCEPT !.pc = "diverged", !.solved = "diverged"]
             [] r.net.kind = "faults" -> Fail([r EXCEPT !.solved = "fault"], "SolverError")
             [] OTHER -> [r EXCEPT !.pc = "evaluate", !.solved = "converged"]]
  /\ UNCHANGED << scratch, store >>

\* Mutant of EvalStep: a violation is put at the head of the list.
EvalStepPrepends(i) ==
  /\ run[i].pc = "evaluate"
  /\ run[i].visited < Len(run[i].net.res_bus)
  /\ LET row == run[i].net.res_bus[run[i].visited + 1]
     IN  run' = [run EXCEPT ![i] =
           [@ EXCEPT !.visited = @ + 1,
                     !.violations = IF OutOfLimits(row.vm_pu)
                                    THEN << Violation(row) >> \o @
                                    ELSE @]]
  /\ UNCHANGED << scratch, store >>

\* Lines 56-65: one iteration of the loop over net.res_bus.
EvalStep(i) ==
  /\ run[i].pc = "evaluate"
  /\ run[i].visited < Len(run[i].net.res_bus)
  /\ LET row == run[i].net.res_bus[run[i].visited + 1]
     IN  run' = [run EXCEPT ![i] =
           [@ EXCEPT !.visited = @ + 1,
                     !.violations = IF OutOfLimits(row.vm_pu)
                                    THEN Append(@, Violation(row))
                                    ELSE @]]
  /\ UNCHANGED << scratch, store >>

\* Mutant of EvalDone: the loop may be left before its last row.
EvalDoneEarly(i) ==
  /\ run[i].pc = "evaluate"
  /\ run' = [run EXCEPT ![i] =
       [@ EXCEPT !.pc = "persist", !.status = StatusOf(run[i].violations)]]
  /\ UNCHANGED << scratch, store >>

\* Line 67: the loop is over; the status follows from the violations.
EvalDone(i) ==
  /\ run[i].pc = "evaluate"
  /\ run[i].visited = Len(run[i].net.res_bus)
  /\ run' = [run EXCEPT ![i] =
       [@ EXCEPT !.pc = "persist", !.status = StatusOf(run[i].violations)]]
  /\ UNCHANGED << scratch, store >>

\* Mutant of log_result: a fault of put_item is passed over.
log_result_swallows(i, status, standard, violations, returned) ==
  \/ \E ts \in Timestamps :
       /\ store' = put_item(store, Item(run[i].file_key, ts, status, standard, violations))
       /\ run' = [run EXCEPT ![i] =
            Return([@ EXCEPT !.status = status, !.writes = run[i].writes + 1], returned)]
  \/ /\ run' = [run EXCEPT ![i] = Return([@ EXCEPT !.status = status], returned)]
     /\ UNCHANGED store

\* _log_result: put_item writes the item, or faults.
log_result(i, status, standard, violations, returned) ==
  \/ \E ts \in Timestamps :
       /\ store' = put_item(store, Item(run[i].file_key, ts, status, standard, violations))
       /\ run' = [run EXCEPT ![i] =
            Return([@ EXCEPT !.status = status, !.writes = run[i].writes + 1], returned)]
  \/ /\ run' = [run EXCEPT ![i] = Fail(@, "PersistenceError")]
     /\ UNCHANGED store

\* Mutant of LogDivergence: the divergence is raised to the caller unrecorded.
LogDivergencePropagates(i) ==
  /\ run[i].pc = "diverged"
  /\ run' = [run EXCEPT ![i] = Fail(@, "LoadflowNotConverged")]
  /\ UNCHANGED << scratch, store >>

\* Lines 47-49: divergence is recorded, and _log_result's value is returned.
LogDivergence(i) ==
  /\ run[i].pc = "diverged"
  /\ log_result(i, "ERROR", "Divergence", << >>, ReturnNone)
  /\ UNCHANGED scratch

\* Lines 70-76: the verdict is persisted and reported.
LogVerdict(i) ==
  /\ run[i].pc = "persist"
  /\ log_result(i, run[i].status, "VDE-AR-N 4110", run[i].violations,
                Response(run[i].status, run[i].file_key))
  /\ UNCHANGED scratch

lambda_handler(i) ==
  \/ ParseEvent(i)
  \/ Download(i)
  \/ Load(i)
  \/ RunPP(i)
  \/ EvalStep(i)
  \/ EvalDone(i)
  \/ LogDivergence(i)
  \/ LogVerdict(i)

Next == \E i \in Slots : Invoke(i) \/ lambda_handler(i)

Spec == Init /\ [][Next]_vars

\* ------------------------------------------------ evaluation specification

\* The compliance logic of lines 54-71 on its own: a run whose solver has
\* converged to any res_bus table within the bounds, at the head of the
\* loop, up to the record it persists.
InitEval ==
  /\ \E k \in Keys, t \in Tables :
       run = [i \in Slots |->
                IF i = 1
                THEN [IdleRun EXCEPT !.pc = "evaluate", !.file_key = k,
                                     !.net = Converges(t),
                                     !.solved = "converged"]
                ELSE IdleRun]
  /\ scratch = [n \in Basenames |-> NoFile]
  /\ store = {}

NextEval == \E i \in Slots : EvalStep(i) \/ EvalDone(i) \/ LogVerdict(i)

SpecEval == InitEval /\ [][NextEval]_vars

\* ------------------------------------------------------------------ claims

\* Run i takes a step.
Steps(i) == run'[i] # run[i]

\* Run i makes a store write that succeeds in this step.
Writes(i) == run'[i].writes = run[i].writes + 1

\* The records of table t under grid_id k.
RecordsOf(t, k) == { r \in t : r.grid_id = k }

\* C1: a run whose download and parse succeeded and whose solver signalled
\* non-convergence makes, unless the store write faults, exactly one store
\* write, of a record with status ERROR and no violations, and returns to
\* the caller without raising.
C1_DivergencePath ==
  /\ [](\A i \in Slots :
          run[i].solved = "diverged"
            => /\ run[i].pc \in {"diverged", "returned", "raised"}
               /\ run[i].pc = "diverged" => run[i].writes = 0
               /\ run[i].pc = "returned" => run[i].writes = 1 /\ run[i].result.kind # "raise"
               /\ run[i].pc = "raised" => run[i].result = Raised("PersistenceError"))
  /\ [][\A i \in Slots :
          (run[i].solved = "diverged" /\ Steps(i) /\ run'[i].result.exc # "PersistenceError")
            => /\ run'[i].pc = "returned"
               /\ Writes(i)
               /\ \E r \in store' :
                    /\ RecordsOf(store', run[i].file_key) = {r}
                    /\ r.status = "ERROR"
                    /\ r.violations = << >>]_vars

\* C1 happens: a run on a diverging network has returned after its one
\* write, and the ERROR record is in the store.
C1_Witness ==
  \E i \in Slots :
    /\ run[i].solved = "diverged"
    /\ run[i].pc = "returned"
    /\ run[i].writes = 1
    /\ \E r \in store : r.grid_id = run[i].file_key /\ r.status = "ERROR"

\* C2: when the solver raises anything but the divergence signal, the run
\* writes no record, the step leaves the store as it was, and that exception
\* reaches the caller.
C2_SolverFaultPropagates ==
  /\ [](\A i \in Slots :
          run[i].solved = "fault"
            => /\ run[i].pc = "raised"
               /\ run[i].result = Raised("SolverError")
               /\ run[i].writes = 0)
  /\ [][\A i \in Slots :
          (run[i].pc = "solve" /\ run[i].net.kind = "faults" /\ Steps(i))
            => /\ run'[i].solved = "fault"
               /\ store' = store]_vars
  /\ [][\A i \in Slots : run[i].pc = "raised" => ~Steps(i)]_vars

\* C2 happens: a run whose solver faulted has raised SolverError while
\* another run's record is in the store.
C2_Witness ==
  \E i \in Slots :
    /\ run[i].solved = "fault"
    /\ run[i].result.exc = "SolverError"
    /\ store # {}

\* C3: a run whose download or parse fails ends by raising that exception
\* and writes no record: no PASS, FAIL or ERROR verdict comes of it.
C3_LoadFailureRaises ==
  /\ [](\A i \in Slots :
          run[i].result.exc \in {"TransferError", "ParseError"}
            => /\ run[i].pc = "raised"
               /\ run[i].writes = 0
               /\ run[i].status = ""
               /\ run[i].solved = "none")
  /\ [][\A i \in Slots :
          /\ (run[i].pc = "download" /\ Steps(i))
               => \/ run'[i].pc = "load" /\ scratch'[basename(run[i].file_key)] = run'[i].fetched
                  \/ run'[i].result = Raised("TransferError") /\ store' = store
          /\ (run[i].pc = "load" /\ Steps(i)
                /\ scratch[basename(run[i].file_key)].kind = "malformed")
               => run'[i].result = Raised("ParseError") /\ store' = store
          /\ run[i].pc = "raised" => ~Steps(i)]_vars

\* C3 happens: one run has raised TransferError and another ParseError.
C3_Witness ==
  \E i, j \in Slots :
    /\ run[i].result = Raised("TransferError")
    /\ run[j].result = Raised("ParseError")

\* C4: every run that has persisted its record and returned hands back
\* statusCode 200 with the persisted status and the object key as file, on
\* the PASS, FAIL and divergence paths alike.
C4_SuccessResponse ==
  \A i \in Slots :
    (run[i].pc = "returned" /\ run[i].writes = 1)
      => run[i].result = Response(run[i].status, run[i].file_key)

\* C5: a store write is made only by a run whose loop has visited every bus
\* of the solved network, or whose solver divergence has been classified;
\* no step of a run that is started, loaded or evaluating changes the store,
\* and the store changes in no other way.
C5_NoPartialState ==
  /\ [][\A i \in Slots :
          Writes(i)
            => \/ /\ run[i].pc = "persist"
                  /\ run[i].solved = "converged"
                  /\ run[i].visited = Len(run[i].net.res_bus)
               \/ /\ run[i].pc = "diverged"
                  /\ run[i].solved = "diverged"]_vars
  /\ [][\A i \in Slots :
          (Steps(i) /\ run[i].pc \in {"idle", "start", "download", "load", "solve", "evaluate"})
            => store' = store /\ ~Writes(i)]_vars
  /\ [][store' # store => \E i \in Slots : Writes(i)]_vars
  /\ [](\A i \in Slots : run[i].pc = "raised" => run[i].writes = 0)

\* C5 happens: a run is in the middle of its loop, one bus visited and one
\* to go, while the store holds another run's record.
C5_Witness ==
  \E i \in Slots :
    /\ run[i].pc = "evaluate"
    /\ run[i].visited = 1
    /\ Len(run[i].net.res_bus) = 2
    /\ store # {}

\* The band [0.90, 1.10] of the claims, closed at both ends.
InBand(v) == v >= 90000 /\ v <= 110000

\* The positions of res_bus whose voltage is outside the band.
OutOfRange(t) == { p \in DOMAIN t : ~InBand(t[p].vm_pu) }

\* The evaluation of run i is complete: the loop and line 67 are done.
Evaluated(i) == run[i].pc = "persist"

\* C6: every bus-voltage table whose values all lie in [0.90, 1.10], the
\* bounds and the empty table included, evaluates to status PASS with an
\* empty violations list.
C6_InBandPasses ==
  \A i \in Slots :
    (Evaluated(i) /\ OutOfRange(run[i].net.res_bus) = {})
      => run[i].status = "PASS" /\ run[i].violations = << >>

\* C6 happens: a table holding both bounds, 0.90 and 1.10, has passed.
C6_Witness ==
  \E i \in Slots :
    /\ Evaluated(i)
    /\ Len(run[i].net.res_bus) = 2
    /\ { run[i].net.res_bus[p].vm_pu : p \in 1..2 } = { 90000, 110000 }
    /\ run[i].status = "PASS"

\* C7: a table with at least one value outside [0.90, 1.10] evaluates to FAIL
\* with one violation per out-of-range bus and no other, as many violations
\* as out-of-range values, each tagged Undervoltage iff its bus's value is
\* below 0.90 and Overvoltage otherwise (the value is above 1.10).
C7_OutOfBandFails ==
  \A i \in Slots :
    LET t == run[i].net.res_bus
        v == run[i].violations
    IN  (Evaluated(i) /\ OutOfRange(t) # {})
          => /\ run[i].status = "FAIL"
             /\ Len(v) = Cardinality(OutOfRange(t))
             /\ \A p \in OutOfRange(t) :
                  Cardinality({ q \in DOMAIN v : v[q].bus_id = t[p].bus_idx }) = 1
             /\ \A q \in DOMAIN v :
                  \E p \in OutOfRange(t) :
                    /\ v[q].bus_id = t[p].bus_idx
                    /\ (v[q].type = "Undervoltage") = (t[p].vm_pu < 90000)
                    /\ (v[q].type = "Overvoltage") = (t[p].vm_pu > 110000)

\* C7 happens: a table with one bus under and one bus over the band, the
\* undervoltage one a value that rounds onto the bound, has failed.
C7_Witness ==
  \E i \in Slots :
    /\ Evaluated(i)
    /\ { run[i].net.res_bus[p].vm_pu : p \in DOMAIN run[i].net.res_bus } = { 89996, 112000 }
    /\ run[i].status = "FAIL"
    /\ Len(run[i].violations) = 2

\* C8: every record of the store has status PASS, FAIL or ERROR, and its
\* status is FAIL exactly when its violations list is not empty.
C8_StoreStatus ==
  \A r \in store :
    /\ r.status \in {"PASS", "FAIL", "ERROR"}
    /\ (r.status = "FAIL") = (r.violations # << >>)

\* C8 happens: the store holds a FAIL record with its violations beside a
\* record that has none.
C8_Witness ==
  \E r, q \in store :
    /\ r.status = "FAIL" /\ Len(r.violations) = 2
    /\ q.status \in {"PASS", "ERROR"} /\ q.violations = << >>

\* C9: a run writes an ERROR record exactly when it observed solver
\* divergence; an ERROR record carries the divergence marker as its
\* standard and a PASS or FAIL record carries 'VDE-AR-N 4110'; a run that
\* raised, whatever the exception, has written nothing.
C9_ErrorOnlyForDivergence ==
  /\ [](\A r \in store :
          /\ r.status = "ERROR" => r.compliance_standard = "Divergence"
          /\ r.status \in {"PASS", "FAIL"} => r.compliance_standard = "VDE-AR-N 4110")
  /\ [][\A i \in Slots :
          Writes(i)
            => \A r \in RecordsOf(store', run[i].file_key) :
                 (r.status = "ERROR") = (run[i].solved = "diverged")]_vars
  /\ [](\A i \in Slots :
          /\ run[i].pc = "raised" => run[i].writes = 0
          /\ (run[i].pc = "returned" /\ run[i].solved = "diverged") => run[i].status = "ERROR"
          /\ (run[i].writes > 0 /\ run[i].status = "ERROR") => run[i].solved = "diverged")

\* C9 happens: the store holds an ERROR record while a run has raised
\* SolverError and another run has returned from a divergence.
C9_Witness ==
  \E i, j \in Slots :
    /\ run[i].result = Raised("SolverError")
    /\ run[j].pc = "returned" /\ run[j].solved = "diverged"
    /\ \E r \in store : r.status = "ERROR" /\ r.compliance_standard = "Divergence"

\* The item run i is about to put, with timestamp ts.
ItemOf(i, ts) ==
  IF run[i].pc = "diverged"
  THEN Item(run[i].file_key, ts, "ERROR", "Divergence", << >>)
  ELSE Item(run[i].file_key, ts, run[i].status, "VDE-AR-N 4110", run[i].violations)

\* C10: the store holds at most one record per grid_id; a write leaves under
\* its grid_id exactly the record it put, every field the writer's, and
\* leaves the records of the other grid_ids as they were, so that after any
\* interleaving of writes the record of a grid_id is that of its last write.
C10_WholeRecordOverwrite ==
  /\ [](\A r, q \in store : r.grid_id = q.grid_id => r = q)
  /\ [][\A i \in Slots :
          Writes(i)
            => /\ \E ts \in Timestamps :
                    RecordsOf(store', run[i].file_key) = { ItemOf(i, ts) }
               /\ \A k \in Keys \ {run[i].file_key} :
                    RecordsOf(store', k) = RecordsOf(store, k)]_vars
  /\ [][store' # store => \E i \in Slots : Writes(i)]_vars

\* C10 happens: two runs for the same grid_id have both written, one a FAIL
\* and one another verdict, and the store holds one record for it.
C10_Witness ==
  \E i, j \in Slots :
    /\ i # j
    /\ run[i].file_key = run[j].file_key
    /\ run[i].writes = 1 /\ run[j].writes = 1
    /\ run[i].status = "FAIL" /\ run[j].status # "FAIL"
    /\ Cardinality(RecordsOf(store, run[i].file_key)) = 1

\* C11: with overlapping invocations on one scratch area, the file an
\* invocation is about to parse is the one that same invocation downloaded:
\* nothing has written its download path since its own download, whatever
\* the two keys (equal keys, and different keys with the same final segment,
\* included).
C11_ScratchExclusive ==
  \A i \in Slots :
    run[i].pc = "load" => scratch[basename(run[i].file_key)] = run[i].fetched

----------------------------------------------------------------------------
\* The path specification: one invocation for each object key built from
\* ordinary, '.', '..' and empty segments (a trailing or leading '/' is an
\* empty segment), taken to the point where its download path is fixed.

MaxSegments == 3

Segments == { "a", "grid.json", "..", ".", "" }

\* Object keys of one to MaxSegments segments.
PathKeys ==
  UNION { [1..n -> Segments] : n \in 1..MaxSegments }

\* The location a path denotes, as the file system resolves it from the
\* root: empty and '.' segments stay in place, '..' goes to the parent (the
\* root is its own parent).
RECURSIVE Resolve(_)
Resolve(path) ==
  IF Len(path) = 0 THEN << >>
  ELSE LET dir == Resolve(SubSeq(path, 1, Len(path) - 1))
           seg == path[Len(path)]
       IN  IF seg \in {"", "."} THEN dir
           ELSE IF seg = ".." THEN SubSeq(dir, 1, Len(dir) - 1)
           ELSE Append(dir, seg)

InitPath ==
  /\ \E k \in PathKeys :
       run = [i \in Slots |->
                IF i = 1 THEN [IdleRun EXCEPT !.pc = "start", !.event = << k >>]
                ELSE IdleRun]
  /\ scratch = [n \in Basenames |-> NoFile]
  /\ store = {}

NextPath == \E i \in Slots : ParseEvent(i)

SpecPath == InitPath /\ [][NextPath]_vars

\* C12: for every object key, the path the artifact is downloaded to is a
\* file directly inside /tmp named by the key's final segment: it never
\* denotes /tmp itself nor a location outside /tmp, keys with '..' or '.'
\* segments, a trailing '/' or an empty final segment included.
C12_PathSandboxed ==
  \A i \in Slots :
    run[i].pc = "download"
      => LET p == Resolve(download_path(run[i].file_key))
         IN  /\ download_path(run[i].file_key)
                  = << "tmp", run[i].file_key[Len(run[i].file_key)] >>
             /\ Len(p) = 2
             /\ p[1] = "tmp"
             /\ p[2] = run[i].file_key[Len(run[i].file_key)]

\* C13: in every persisted record, each violation's kind follows from its
\* voltage_pu as stored, rounded to four fractional digits: Undervoltage
\* exactly when the stored value is below 0.90, Overvoltage exactly when it
\* is above 1.10, and no stored value lies inside [0.90, 1.10].
C13_KindFromStoredVoltage ==
  \A r \in store :
    \A q \in DOMAIN r.violations :
      LET v == r.violations[q]
      IN  /\ (v.type = "Undervoltage") = (v.voltage_pu < 90000)
          /\ (v.type = "Overvoltage") = (v.voltage_pu > 110000)
          /\ ~InBand(v.voltage_pu)

\* Lines 55-65 as a function of the res_bus table: the violations list the
\* loop builds.
RECURSIVE evaluate(_)
evaluate(res_bus) ==
  IF Len(res_bus) = 0 THEN << >>
  ELSE LET rest == evaluate(SubSeq(res_bus, 1, Len(res_bus) - 1))
           row == res_bus[Len(res_bus)]
       IN  IF OutOfLimits(row.vm_pu) THEN Append(rest, Violation(row)) ELSE rest

\* Table t with each voltage already rounded to four fractional digits.
Rounded(t) == [q \in DOMAIN t |-> [t[q] EXCEPT !.vm_pu = round4(@)]]

\* The buses and recorded voltages of a violations list.
Recorded(violations) ==
  [q \in DOMAIN violations |->
     << violations[q].bus_id, violations[q].voltage_pu >>]

\* C14: the evaluation of a table whose voltages were first rounded to four
\* fractional digits records the same violations, bus for bus and value for
\* value, as the evaluation of the unrounded table, tables with a voltage
\* whose rounding reaches a limit included.
C14_RoundingIdempotent ==
  \A i \in Slots :
    Evaluated(i)
      => /\ run[i].violations = evaluate(run[i].net.res_bus)
         /\ Recorded(run[i].violations)
              = Recorded(evaluate(Rounded(run[i].net.res_bus)))

\* Row is outside the limits, by the spec's band.
OutOfBand(row) == ~InBand(row.vm_pu)

\* The bus ids of a sequence of rows or of violations, in order.
BusIdsOfRows(rows) == [q \in DOMAIN rows |-> rows[q].bus_idx]
BusIdsOf(violations) == [q \in DOMAIN violations |-> violations[q].bus_id]

\* C15: the violations list of an evaluated table, and of the record
\* persisted for it, is the subsequence of the table's rows, in iteration
\* order, whose voltage is out of range: those buses, in that order, no bus
\* twice.
C15_ViolationOrder ==
  /\ [](\A i \in Slots :
          Evaluated(i)
            => /\ BusIdsOf(run[i].violations)
                    = BusIdsOfRows(SelectSeq(run[i].net.res_bus, OutOfBand))
               /\ \A p, q \in DOMAIN run[i].violations :
                    p # q => run[i].violations[p].bus_id # run[i].violations[q].bus_id)
  /\ [][\A i \in Slots :
          (run[i].pc = "persist" /\ Writes(i))
            => \A r \in RecordsOf(store', run[i].file_key) :
                 BusIdsOf(r.violations)
                   = BusIdsOfRows(SelectSeq(run[i].net.res_bus, OutOfBand))]_vars

\* C15 happens: a record is persisted whose two violations are an
\* Undervoltage at bus 2 followed by an Overvoltage at bus 1, the order of
\* the rows and not of the bus ids.
C15_Witness ==
  \E r \in store :
    /\ Len(r.violations) = 2
    /\ r.violations[1].bus_id = 2 /\ r.violations[1].type = "Undervoltage"
    /\ r.violations[2].bus_id = 1 /\ r.violations[2].type = "Overvoltage"

\* Run i holds an object key and is not over.
InFlight(i) == run[i].pc \in {"download", "load", "solve", "evaluate", "persist", "diverged"}

\* C16: of an event with one or more Records entries a run processes the
\* first only: the key it binds, keeps to its end, downloads under and
\* persists under is that of Records[0]; it fetches once, to the download
\* path of that key, and the records it writes have that grid_id, so that
\* the objects of the later entries are neither fetched nor written.
C16_FirstRecordOnly ==
  /\ [](\A i \in Slots :
          run[i].pc = "download"
            => Len(run[i].event) >= 1 /\ run[i].file_key = run[i].event[1])
  /\ [][\A i \in Slots :
          /\ (run[i].pc = "download" /\ Steps(i))
               => /\ \A n \in Basenames \ {basename(run[i].event[1])} :
                       scratch'[n] = scratch[n]
                  /\ run'[i].pc \in {"load", "raised"}
                  /\ store' = store
          /\ (InFlight(i) /\ run'[i].pc # "raised")
               => run'[i].file_key = run[i].file_key
          /\ (InFlight(i) /\ run[i].pc # "download" /\ Steps(i))
               => scratch' = scratch
          /\ Writes(i)
               => /\ \E r \in store' : r.grid_id = run[i].file_key
                  /\ \A r \in store' \ store : r.grid_id = run[i].file_key
                  /\ \A r \in store \ store' : r.grid_id = run[i].file_key]_vars

\* C16 happens: a run given two Records entries holds the key of the first
\* at its download, while another run has persisted its record and the
\* store has none for the second entry.
C16_Witness ==
  \E i, j \in Slots :
    /\ run[i].pc = "download" /\ Len(run[i].event) = 2
    /\ run[i].file_key = run[i].event[1]
    /\ run[j].pc = "returned" /\ run[j].writes = 1
    /\ RecordsOf(store, run[i].event[2]) = {}
    /\ store # {}

\* The status and violations the handler persists for a network that
\* parses and whose solver does not fault (lines 46-49 and 55-71).
VerdictOf(net) ==
  IF net.kind = "diverges"
  THEN [status |-> "ERROR", violations |-> << >>]
  ELSE [status |-> StatusOf(evaluate(net.res_bus)),
        violations |-> evaluate(net.res_bus)]

\* A store write of run i faults in this step.
WriteFaults(i) ==
  run[i].pc \in {"persist", "diverged"} /\ Steps(i) /\ ~Writes(i)

\* The run that faulted at its store write raised that fault, handed back
\* no value and left the store as it was.
C17_FaultRaises ==
  [][\A i \in Slots :
       WriteFaults(i)
         => /\ run'[i].result = Raised("PersistenceError")
            /\ run'[i].pc = "raised"
            /\ store' = store]_vars

\* A run, first attempt or retry, computes the verdict of the artifact it
\* downloaded.
C17_VerdictOfArtifact ==
  [][\A i \in Slots :
       (run[i].pc = "load" /\ run'[i].pc = "solve")
         => run'[i].net = run[i].fetched]_vars

\* A write that succeeds leaves under its grid_id exactly one record, with
\* the verdict of the network the run evaluated.
C17_OneRecordWithVerdict ==
  [][\A i \in Slots :
       Writes(i)
         => \E r \in store' :
              /\ RecordsOf(store', run[i].file_key) = {r}
              /\ r.status = VerdictOf(run[i].net).status
              /\ r.violations = VerdictOf(run[i].net).violations]_vars

\* C17: a run whose store write faults raises that fault, returns no value
\* and writes nothing; a retry of the same event on the unchanged artifact
\* computes the verdict of that artifact as the failed run did, and when
\* its write succeeds the store holds exactly one record for the grid_id,
\* with that status and those violations.
C17_RetryIdempotent ==
  C17_FaultRaises /\ C17_VerdictOfArtifact /\ C17_OneRecordWithVerdict

\* The stage a run may enter from each stage: download, parse, solve,
\* evaluate, persist and return in that order, divergence going from solve
\* to persist, and a failing stage going to the raise.
StageOrder ==
  { << "idle", "start" >>, << "start", "download" >>, << "download", "load" >>,
    << "load", "solve" >>, << "solve", "evaluate" >>, << "solve", "diverged" >>,
    << "evaluate", "evaluate" >>, << "evaluate", "persist" >>,
    << "persist", "returned" >>, << "diverged", "returned" >> }
  \cup { << st, "raised" >> :
           st \in {"start", "download", "load", "solve", "persist", "diverged"} }

\* C18: a run goes through download, parse, solve, evaluate, persist and
\* return strictly in that order; the evaluation is entered exactly when
\* the solver converged; after a divergence the run goes from the solve
\* straight to the persist, having read no bus voltage.
C18_StageOrder ==
  /\ [][\A i \in Slots :
          Steps(i) => << run[i].pc, run'[i].pc >> \in StageOrder]_vars
  /\ [][\A i \in Slots :
          (run[i].pc = "solve" /\ Steps(i))
            => /\ (run'[i].pc = "evaluate") = (run'[i].solved = "converged")
               /\ (run'[i].pc = "diverged") = (run'[i].solved = "diverged")
               /\ (run'[i].pc = "raised") = (run'[i].solved = "fault")]_vars
  /\ [](\A i \in Slots :
          /\ run[i].pc \in {"evaluate", "persist"} => run[i].solved = "converged"
          /\ run[i].visited > 0 => run[i].solved = "converged"
          /\ run[i].pc = "diverged"
               => /\ run[i].solved = "diverged"
                  /\ run[i].visited = 0
                  /\ run[i].violations = << >>)
  /\ [][\A i \in Slots :
          (run[i].pc = "diverged" /\ Steps(i))
            => Writes(i) \/ run'[i].result = Raised("PersistenceError")]_vars

\* C18 happens: one run has returned after a converged solve and its
\* evaluation, another after a divergence, each with its record written.
C18_Witness ==
  \E i, j \in Slots :
    /\ run[i].pc = "returned" /\ run[i].solved = "converged" /\ run[i].status = "FAIL"
    /\ run[j].pc = "returned" /\ run[j].solved = "diverged" /\ run[j].status = "ERROR"
    /\ run[i].writes = 1 /\ run[j].writes = 1

\* The run is over.
Over(i) == run[i].pc \in {"returned", "raised"}

\* The stages a run at stage st has ahead of it at most.
StagesAhead(st) ==
  CASE st = "idle" -> 8
    [] st = "start" -> 7
    [] st = "download" -> 6
    [] st = "load" -> 5
    [] st = "solve" -> 4
    [] st = "evaluate" -> 2
    [] st \in {"persist", "diverged"} -> 1
    [] OTHER -> 0

\* The steps run r has left at most: stages ahead, and rows ahead in the
\* loop.
Rank(r) ==
  StagesAhead(r.pc) * (MaxBuses + 2) + (Len(r.net.res_bus) - r.visited)

\* C19: every run ends, and in one of two ways: it returns, having made
\* exactly one store write that succeeded, or it raises, having made none.
\* No run writes twice, none returns without its write, and an exception
\* (that of an event with no Records entry included) is raised to the
\* caller, not passed over. A run ends because it can take a step as
\* long as it is not over and each of its steps lowers its rank.
C19_OutcomeDichotomy ==
  /\ [](\A i \in Slots :
          /\ run[i].writes <= 1
          /\ run[i].pc = "returned"
               => run[i].writes = 1 /\ run[i].result.kind \in {"return", "return_none"}
          /\ run[i].pc = "raised"
               => run[i].writes = 0 /\ run[i].result.kind = "raise"
          /\ ~Over(i) => run[i].writes = 0 /\ run[i].result = NoResult
          /\ (run[i].pc # "idle" /\ ~Over(i)) => ENABLED lambda_handler(i))
  /\ [][\A i \in Slots :
          Steps(i)
            => /\ Rank(run'[i]) < Rank(run[i])
               /\ (run[i].pc = "start" /\ Len(run[i].event) = 0)
                    => run'[i].result = Raised("IndexError")
               /\ (run[i].pc \in {"persist", "diverged"} /\ ~Writes(i))
                    => run'[i].result = Raised("PersistenceError")
               /\ run'[i].pc = "raised" => store' = store]_vars

\* C19 happens: a run given an event with no Records entry has raised
\* IndexError, another has returned after its one write, and the store
\* holds that one record.
C19_Witness ==
  \E i, j \in Slots :
    /\ run[i].result = Raised("IndexError") /\ run[i].writes = 0
    /\ run[j].pc = "returned" /\ run[j].writes = 1
    /\ Cardinality(store) = 1

\* A write of run i puts a record under its key and leaves the records of
\* every other grid_id as they were.
C20_WriteFrame ==
  [][\A i \in Slots :
       Writes(i)
         => /\ \E r \in store' :
                 RecordsOf(store', run[i].file_key) = {r}
            /\ \A k \in Keys \ {run[i].file_key} :
                 RecordsOf(store', k) = RecordsOf(store, k)]_vars

\* A step of a run on one key leaves a run on another key, the file it is
\* about to parse and the record under its key as they were.
C20_StepsCommute ==
  [][\A i, j \in Slots :
       (InFlight(i) /\ InFlight(j) /\ Steps(j)
          /\ run[i].file_key # run[j].file_key)
         => /\ run'[i] = run[i]
            /\ RecordsOf(store', run[i].file_key) = RecordsOf(store, run[i].file_key)
            /\ run[i].pc = "load"
                 => scratch'[basename(run[i].file_key)]
                      = scratch[basename(run[i].file_key)]]_vars

\* C20: a run for key k writes a record with grid_id k and leaves every
\* record of another grid_id unchanged; runs on pairwise distinct keys do
\* not touch what one another reads or writes, so that the statuses and
\* violations the store ends with are the same under every interleaving.
C20_PerKeyFrame ==
  C20_WriteFrame /\ C20_StepsCommute

====
